---- MODULE Spec2Model ----
(***************************************************************************)
(* A model of DockQ.py: the alignment mapper, the contact engine, the      *)
(* interface extractor, the scorer and main with its permutation search.   *)
(*                                                                         *)
(* Conventions.  Python lists and numpy arrays are TLA+ sequences; a       *)
(* 0-based Python index k is kept as the number k and read as s[k + 1].    *)
(* An uncaught Python exception is a result record whose tag is the        *)
(* exception's name.  Coordinates are integers on a line, so the Euclidean *)
(* distance of get_distances_across_chains is the absolute difference.     *)
(***************************************************************************)
EXTENDS Integers, Sequences, FiniteSets, TLC

VARIABLES
    call,       \* the function a harness calls directly, with its arguments
    ret,        \* what that call returned
    pc,         \* the statement the program is at
    args,       \* the parsed command line of a run of main
    ml,         \* the locals of main
    c,          \* the locals of calc_DockQ
    stdout,     \* what has been printed
    outcome     \* how the run ended: still running, returned, exited, raised

vars == <<call, ret, pc, args, ml, c, stdout, outcome>>

----------------------------------------------------------------------------
(* Bounds of the model *)

\* longest model or native chain sequence handed to the alignment mapper
MaxSeqLen == 3
\* largest native residue number
MaxResNum == 4
\* most residues in one chain of a structure handed to calc_DockQ
MaxChainLen == 2

----------------------------------------------------------------------------
(* Generic helpers for Python / numpy idioms *)

Min2(a, b) == IF a < b THEN a ELSE b

\* s[:n]
Take(s, n) == SubSeq(s, 1, Min2(n, Len(s)))

\* range(n) as a sequence 0 .. n-1
Range0(n) == [i \in 1..n |-> i - 1]

\* the values of a sequence
Values(s) == {s[i] : i \in 1..Len(s)}

NoResult == [tag |-> "none"]

----------------------------------------------------------------------------
(* Structure model: a structure is a sequence of chains, a chain            *)
(* [id, residues], a residue [chain, id, resname, atoms], an atom           *)
(* [name, coord].                                                          *)

Raise(exc) == [tag |-> exc]
Ok(v) == [tag |-> "ok", value |-> v]

\* the rest of a computation, unless x is a raised exception
Bind(x, rest(_)) == IF x.tag = "ok" THEN rest(x.value) ELSE x

RECURSIVE Concat(_)
Concat(ss) == IF ss = <<>> THEN <<>> ELSE Head(ss) \o Concat(Tail(ss))

Abs(x) == IF x < 0 THEN 0 - x ELSE x

SetMin(S) == CHOOSE x \in S : \A y \in S : x <= y

ChainIds(structure) == [i \in 1..Len(structure) |-> structure[i].id]

HasChain(structure, chain) == \E i \in 1..Len(structure) : structure[i].id = chain

\* model[chain]
ChainOf(structure, chain) ==
    structure[CHOOSE i \in 1..Len(structure) : structure[i].id = chain]

HasChains(structure, group) ==
    \A k \in 1..Len(group) : HasChain(structure, group[k])

\* [res for chain in group for res in model[chain].get_residues()]
GroupResidues(structure, group) ==
    Concat([k \in 1..Len(group) |-> ChainOf(structure, group[k]).residues])

HasAtom(res, name) == \E a \in 1..Len(res.atoms) : res.atoms[a].name = name

AtomNamed(res, name) ==
    res.atoms[CHOOSE a \in 1..Len(res.atoms) : res.atoms[a].name = name]

\* A matrix with its shape, so that empty matrices keep theirs
Matrix(nrow, ncol, f(_, _)) ==
    [nrow |-> nrow, ncol |-> ncol,
     cell |-> [i \in 1..nrow, j \in 1..ncol |-> f(i, j)]]

----------------------------------------------------------------------------
(* Contact engine                                                          *)

\* d[key] = value on an insertion-ordered dict kept as a sequence of entries
DictSet(d, key, value) ==
    IF \E i \in 1..Len(d) : d[i].key = key
    THEN [i \in 1..Len(d) |-> IF d[i].key = key
                              THEN [key |-> key, n |-> value] ELSE d[i]]
    ELSE Append(d, [key |-> key, n |-> value])

RECURSIVE DictFill(_, _)
DictFill(d, residues) ==
    IF residues = <<>> THEN d
    ELSE DictFill(DictSet(d, <<Head(residues).chain, Head(residues).id>>,
                          Len(Head(residues).atoms)),
                  Tail(residues))

\* get_group_dictionary: (chain, residue number) -> number of atoms
get_group_dictionary(model, group) ==
    DictFill(<<>>, GroupResidues(model, group))

\* the coordinate rows get_distances_across_chains collects for one group
GroupCoords(model, group, all_atom) ==
    LET residues == GroupResidues(model, group)
    IN  IF all_atom
        THEN Concat([r \in 1..Len(residues) |->
                       [a \in 1..Len(residues[r].atoms) |->
                           residues[r].atoms[a].coord]])
        ELSE [r \in 1..Len(residues) |->
                 IF HasAtom(residues[r], "CB")
                 THEN AtomNamed(residues[r], "CB").coord
                 ELSE AtomNamed(residues[r], "CA").coord]

\* np.sqrt(((A[:, None] - B[None, :]) ** 2).sum(-1)).  An empty coordinate
\* list is a 1-d array of shape (0,): the subtraction broadcasts only
\* against a single row or another empty array.
PairwiseDistances(model_A_atoms, model_B_atoms) ==
    IF Len(model_A_atoms) > 0 /\ Len(model_B_atoms) = 0 THEN Raise("ValueError")
    ELSE IF Len(model_A_atoms) = 0 /\ Len(model_B_atoms) > 1 THEN Raise("ValueError")
    ELSE Ok(Matrix(IF Len(model_A_atoms) = 0 THEN Len(model_B_atoms)
                   ELSE Len(model_A_atoms),
                   IF Len(model_A_atoms) = 0 THEN 0 ELSE Len(model_B_atoms),
                   LAMBDA i, j : Abs(model_A_atoms[i] - model_B_atoms[j])))

\* get_distances_across_chains
get_distances_across_chains(model, group1, group2, all_atom) ==
    IF ~(HasChains(model, group1) /\ HasChains(model, group2))
    THEN Raise("KeyError")
    ELSE IF /\ ~all_atom
            /\ \E res \in Values(GroupResidues(model, group1))
                       \cup Values(GroupResidues(model, group2)) :
                  ~HasAtom(res, "CB") /\ ~HasAtom(res, "CA")
    THEN Raise("KeyError")
    ELSE PairwiseDistances(GroupCoords(model, group1, all_atom),
                           GroupCoords(model, group2, all_atom))

\* sum of the atom counts of the first k entries of a group dictionary
RECURSIVE CumAtoms(_, _)
CumAtoms(group_dic, k) ==
    IF k = 0 THEN 0 ELSE CumAtoms(group_dic, k - 1) + group_dic[k].n

\* the rows (or columns) of a slice lo:lo+n of an axis of length size
Slice(lo, n, size) == {x \in 1..size : lo < x /\ x <= lo + n}

\* atom_distances[cum_i:cum_i + i_atoms, cum_j:cum_j + j_atoms]
Block(atom_distances, group_dic1, group_dic2, i, j) ==
    {atom_distances.cell[a, b] :
        a \in Slice(CumAtoms(group_dic1, i - 1), group_dic1[i].n,
                    atom_distances.nrow),
        b \in Slice(CumAtoms(group_dic2, j - 1), group_dic2[j].n,
                    atom_distances.ncol)}

\* group_atom_into_res_distances: np.min of an empty block raises ValueError
group_atom_into_res_distances(atom_distances, group_dic1, group_dic2) ==
    IF \E i \in 1..Len(group_dic1), j \in 1..Len(group_dic2) :
          Block(atom_distances, group_dic1, group_dic2, i, j) = {}
    THEN Raise("ValueError")
    ELSE Ok(Matrix(Len(group_dic1), Len(group_dic2),
                   LAMBDA i, j : SetMin(Block(atom_distances, group_dic1,
                                              group_dic2, i, j))))

\* a contact test that lets a pair at exactly the threshold through
BelowOrAt(res_distances, thr) ==
    Matrix(res_distances.nrow, res_distances.ncol,
           LAMBDA i, j : res_distances.cell[i, j] <= thr)

\* res_distances < thr
Below(res_distances, thr) ==
    Matrix(res_distances.nrow, res_distances.ncol,
           LAMBDA i, j : res_distances.cell[i, j] < thr)

\* numpy broadcasting of two 2-d shapes
Broadcastable(a, b) ==
    /\ (a.nrow = b.nrow \/ a.nrow = 1 \/ b.nrow = 1)
    /\ (a.ncol = b.ncol \/ a.ncol = 1 \/ b.ncol = 1)

BroadcastDim(x, y) == IF x = 1 THEN y ELSE x

BroadcastCell(a, i, j) ==
    a.cell[IF a.nrow = 1 THEN 1 ELSE i, IF a.ncol = 1 THEN 1 ELSE j]

\* np.sum(a * b) for 0/1 matrices; negate_b gives np.sum(a * (1 - b))
SumProduct(a, b, negate_b) ==
    Cardinality({ij \in (1..BroadcastDim(a.nrow, b.nrow))
                        \X (1..BroadcastDim(a.ncol, b.ncol)) :
                    /\ BroadcastCell(a, ij[1], ij[2])
                    /\ (BroadcastCell(b, ij[1], ij[2]) # negate_b)})

\* np.sum(a) for a boolean matrix
SumTrue(a) == Cardinality({ij \in (1..a.nrow) \X (1..a.ncol) : a.cell[ij[1], ij[2]]})

\* lines 650-656 of get_fnat
ContactCounts(model_contacts, native_contacts) ==
    IF ~Broadcastable(model_contacts, native_contacts)
    THEN Raise("ValueError")
    ELSE Ok([n_shared_contacts |->
                SumProduct(model_contacts, native_contacts, FALSE),
             n_non_native_contacts |->
                SumProduct(model_contacts, native_contacts, TRUE),
             n_native_contacts |-> SumTrue(native_contacts),
             n_model_contacts |-> SumTrue(model_contacts)])

\* get_fnat
get_fnat(model_structure, native_structure, group1, group2, nat_group1, nat_group2, thr) ==
    IF ~(/\ HasChains(model_structure, group1) /\ HasChains(model_structure, group2)
         /\ HasChains(native_structure, nat_group1)
         /\ HasChains(native_structure, nat_group2))
    THEN Raise("KeyError")
    ELSE
      Bind(get_distances_across_chains(model_structure, group1, group2, TRUE),
        LAMBDA model_atom_distances :
      Bind(get_distances_across_chains(native_structure, nat_group1, nat_group2,
                                       TRUE),
        LAMBDA native_atom_distances :
      Bind(group_atom_into_res_distances(
               model_atom_distances,
               get_group_dictionary(model_structure, group1),
               get_group_dictionary(model_structure, group2)),
        LAMBDA model_res_distances :
      Bind(group_atom_into_res_distances(
               native_atom_distances,
               get_group_dictionary(native_structure, nat_group1),
               get_group_dictionary(native_structure, nat_group2)),
        LAMBDA native_res_distances :
      ContactCounts(Below(model_res_distances, thr),
                    Below(native_res_distances, thr))))))

----------------------------------------------------------------------------
(* Interface extractor                                                     *)

\* the index pairs below thr taken column by column
RECURSIVE ColumnMajorWhere(_, _, _)
ColumnMajorWhere(m, thr, k) ==
    IF k >= m.nrow * m.ncol THEN <<>>
    ELSE LET i == k % m.nrow
             j == k \div m.nrow
         IN  (IF m.cell[i + 1, j + 1] < thr THEN << <<i, j>> >> ELSE <<>>)
             \o ColumnMajorWhere(m, thr, k + 1)

\* np.where(m < thr): the index pairs (0-based) in row-major order
RECURSIVE RowMajorWhere(_, _, _)
RowMajorWhere(m, thr, k) ==
    IF k >= m.nrow * m.ncol THEN <<>>
    ELSE LET i == k \div m.ncol
             j == k % m.ncol
         IN  (IF m.cell[i + 1, j + 1] < thr THEN << <<i, j>> >> ELSE <<>>)
             \o RowMajorWhere(m, thr, k + 1)

\* lines 676-681: two entries per positive pair
PairEntries(positive_pairs, residues1, residues2) ==
    Concat([k \in 1..Len(positive_pairs) |->
              <<residues1[positive_pairs[k][1] + 1],
                residues2[positive_pairs[k][2] + 1]>>])

\* lines 670-682 of get_interface
InterfaceLists(positive_pairs, ref_residues_group1, ref_residues_group2, model_residues_group1, model_residues_group2) ==
    IF \E k \in 1..Len(positive_pairs) :
          \/ positive_pairs[k][1] >= Len(ref_residues_group1)
          \/ positive_pairs[k][2] >= Len(ref_residues_group2)
          \/ positive_pairs[k][1] >= Len(model_residues_group1)
          \/ positive_pairs[k][2] >= Len(model_residues_group2)
    THEN Raise("IndexError")
    ELSE Ok([model_interface |->
                PairEntries(positive_pairs, model_residues_group1,
                            model_residues_group2),
             ref_interface |->
                PairEntries(positive_pairs, ref_residues_group1,
                            ref_residues_group2)])

\* get_interface
get_interface(model_structure, ref_structure, model_group1, model_group2, ref_group1, ref_group2, thr, all_atom) ==
    Bind(get_distances_across_chains(ref_structure, ref_group1, ref_group2,
                                     all_atom),
      LAMBDA atom_distances :
    Bind(IF all_atom
         THEN group_atom_into_res_distances(
                  atom_distances,
                  get_group_dictionary(ref_structure, ref_group1),
                  get_group_dictionary(ref_structure, ref_group2))
         ELSE Ok(atom_distances),
      LAMBDA model_res_distances :
    IF ~(HasChains(model_structure, model_group1)
         /\ HasChains(model_structure, model_group2))
    THEN Raise("KeyError")
    ELSE InterfaceLists(RowMajorWhere(model_res_distances, thr, 0),
                        GroupResidues(ref_structure, ref_group1),
                        GroupResidues(ref_structure, ref_group2),
                        GroupResidues(model_structure, model_group1),
                        GroupResidues(model_structure, model_group2))))

----------------------------------------------------------------------------
(* calc_DockQ, statement by statement                                      *)

Running == [tag |-> "running"]
\* an uncaught exception: traceback on stderr, exit status 1
Uncaught(exc) == [tag |-> "exception", exc |-> exc, status |-> 1]

Unset == [tag |-> "unset"]
Idle == [tag |-> "idle"]

\* numpy integer true division: a zero denominator gives nan or inf with a
\* warning, never an exception
NumpyDivide(a, b) ==
    IF b = 0
    THEN (IF a = 0 THEN [tag |-> "nan"] ELSE [tag |-> "inf"])
    ELSE [tag |-> "ratio", num |-> a, den |-> b]

\* the frame of a call calc_DockQ(sample_model, ref_model, group1, group2,
\* nat_group1, nat_group2, use_CA_only, capri_peptide)
CalcFrame(sample_model, ref_model, group1, group2, nat_group1, nat_group2, use_CA_only, capri_peptide) ==
    [tag |-> "frame", sample_model |-> sample_model, ref_model |-> ref_model,
     group1 |-> group1, group2 |-> group2,
     nat_group1 |-> nat_group1, nat_group2 |-> nat_group2,
     use_CA_only |-> use_CA_only, capri_peptide |-> capri_peptide,
     atom_for_sup |-> {}, threshold |-> 0, interface_threshold |-> 0,
     all_atom |-> FALSE,
     counts |-> Unset, fnat |-> Unset, fnonnat |-> Unset,
     interface |-> Unset, irms |-> Unset]

\* lines 200-209: the atom set and the thresholds of the mode
calc_thresholds ==
    /\ pc = "calc_DockQ"
    /\ c' = [c EXCEPT
               !.atom_for_sup = IF c.use_CA_only THEN {"CA"}
                                ELSE {"CA", "C", "N", "O"},
               !.threshold = IF c.capri_peptide THEN 4 ELSE 5,
               !.interface_threshold = IF c.capri_peptide THEN 8 ELSE 10,
               !.all_atom = ~c.capri_peptide]
    /\ pc' = "calc_get_fnat"
    /\ UNCHANGED <<args, ml, call, ret, stdout, outcome>>

\* a statement that stores the value of a call in a local, or lets the
\* exception the call raised end the run
CalcAssign(r, local, next_pc) ==
    IF r.tag = "ok"
    THEN /\ c' = [c EXCEPT ![local] = r]
         /\ pc' = next_pc
         /\ UNCHANGED outcome
    ELSE /\ outcome' = Uncaught(r.tag)
         /\ pc' = "stopped"
         /\ UNCHANGED c

\* line 213
calc_get_fnat ==
    /\ pc = "calc_get_fnat"
    /\ CalcAssign(get_fnat(c.sample_model, c.ref_model, c.group1, c.group2,
                           c.nat_group1, c.nat_group2, c.threshold),
                  "counts", "calc_ratios")
    /\ UNCHANGED <<args, ml, call, ret, stdout>>

\* lines 214-215
calc_ratios ==
    /\ pc = "calc_ratios"
    /\ c' = [c EXCEPT
               !.fnat = NumpyDivide(c.counts.value.n_shared_contacts,
                                    c.counts.value.n_native_contacts),
               !.fnonnat = NumpyDivide(c.counts.value.n_non_native_contacts,
                                       c.counts.value.n_model_contacts)]
    /\ pc' = "calc_get_interface"
    /\ UNCHANGED <<args, ml, call, ret, stdout, outcome>>

\* line 216
calc_get_interface ==
    /\ pc = "calc_get_interface"
    /\ CalcAssign(get_interface(c.sample_model, c.ref_model, c.group1, c.group2,
                                c.nat_group1, c.nat_group2,
                                c.interface_threshold, c.all_atom),
                  "interface", "calc_superimpose")
    /\ UNCHANGED <<args, ml, call, ret, stdout>>

\* [atom for res in interface for atom in res.get_atoms() if atom.id in atom_for_sup]
AtomsForSup(interface, atom_for_sup) ==
    Concat([k \in 1..Len(interface) |->
              SelectSeq(interface[k].atoms, LAMBDA a : a.name \in atom_for_sup)])

\* lines 368-375: the interface superposition.  Superimposer.set_atoms
\* refuses lists of different length; the rigid transform it applies to the
\* model leaves every distance inside the model as it was, and the rms is
\* kept as a token naming the fit.
calc_superimpose ==
    /\ pc = "calc_superimpose"
    /\ IF Len(AtomsForSup(c.interface.value.ref_interface, c.atom_for_sup))
            # Len(AtomsForSup(c.interface.value.model_interface, c.atom_for_sup))
       THEN /\ outcome' = Uncaught("PDBException")
            /\ pc' = "stopped"
            /\ UNCHANGED <<c, stdout>>
       ELSE /\ c' = [c EXCEPT !.irms =
                        [tag |-> "rms", fit |-> "interface",
                         n_atoms |-> Len(AtomsForSup(c.interface.value.ref_interface,
                                                     c.atom_for_sup))]]
            /\ stdout' = Append(stdout, "irms")
            /\ pc' = "calc_chain_keys"
            /\ UNCHANGED outcome
    /\ UNCHANGED <<args, ml, call, ret>>

\* line 376: chain_sample is assigned only inside the string literal of
\* lines 263-367, so reading it raises NameError
calc_chain_keys ==
    /\ pc = "calc_chain_keys"
    /\ outcome' = Uncaught("NameError")
    /\ pc' = "stopped"
    /\ UNCHANGED <<args, ml, call, ret, c, stdout>>

calc_DockQ_step ==
    \/ calc_thresholds
    \/ calc_get_fnat
    \/ calc_ratios
    \/ calc_get_interface
    \/ calc_superimpose
    \/ calc_chain_keys

----------------------------------------------------------------------------
(* Structures handed to calc_DockQ directly                                *)

Atom(name, coord) == [name |-> name, coord |-> coord]

Glycine(x) == [resname |-> "GLY", atoms |-> <<Atom("CA", x)>>]
Alanine(xCA, xCB) == [resname |-> "ALA", atoms |-> <<Atom("CA", xCA), Atom("CB", xCB)>>]

\* Residue templates of the first partner (around x = 0) and of the second
\* (around x = 5 .. 11): a glycine with its CA, an alanine with CA and CB.
TemplatesA == {Glycine(1), Alanine(0 - 5, 0)}
TemplatesB == {Glycine(5), Alanine(10, 11)}

\* how far a residue of the model's second partner sits from its place in
\* the native, when the model is not the native itself
Displacements == {0 - 1, 1}

ShiftAtoms(atoms, dx) ==
    [a \in 1..Len(atoms) |-> [atoms[a] EXCEPT !.coord = @ + dx]]

\* a chain whose residues are numbered 1, 2, ... from a sequence of templates,
\* residue r displaced by dxs[r]
MakeChain(id, templates, dxs) ==
    [id |-> id,
     residues |-> [r \in 1..Len(templates) |->
                     [chain |-> id, id |-> r,
                      resname |-> templates[r].resname,
                      atoms |-> ShiftAtoms(templates[r].atoms, dxs[r])]]]

Zeros(n) == [r \in 1..n |-> 0]

TemplateSeqs(T, n) == UNION {[1..l -> T] : l \in 1..n}

NativeInputs ==
    {[A |-> ta, B |-> tb] : ta \in TemplateSeqs(TemplatesA, MaxChainLen),
                            tb \in TemplateSeqs(TemplatesB, MaxChainLen)}

\* the first n residues of a chain of the native, followed by glycines when the
\* model has more residues than the native
Resized(templates, n, extra) ==
    [r \in 1..n |-> IF r <= Len(templates) THEN templates[r] ELSE extra]

NativeOf(nat) ==
    <<MakeChain("A", nat.A, Zeros(Len(nat.A))),
      MakeChain("B", nat.B, Zeros(Len(nat.B)))>>

\* the lengths the first chain of a model may have: that of the native's, or
\* the next one
ModelLengths(n) == {n, (n % MaxChainLen) + 1}

\* The models of a native: the native itself, and the same residues with
\* those of the second partner displaced, each chain with residues missing
\* at its end or glycines added to it.
ModelsOf(nat) ==
    {NativeOf(nat)} \cup
    {<<MakeChain("A", Resized(nat.A, la, Glycine(1)), Zeros(la)),
       MakeChain("B", Resized(nat.B, Len(dxs), Glycine(5)), dxs)>> :
        la \in ModelLengths(Len(nat.A)),
        dxs \in TemplateSeqs(Displacements, MaxChainLen)}

\* single-atom residues at given places
ChainAt(id, xs) == MakeChain(id, [r \in 1..Len(xs) |-> Glycine(xs[r])], Zeros(Len(xs)))

\* The worked case of ten native contacts, of which the model keeps eight and
\* to which it adds one.
ExampleNative == <<ChainAt("A", <<3, 3, 0, 0>>), ChainAt("B", <<4, 4, 5>>)>>
ExampleModel == <<ChainAt("A", <<3, 3, 1, 0 - 1>>), ChainAt("B", <<4, 4, 5>>)>>

\* a call of calc_DockQ on the chains A and B of a model and a native
CalcCall(sample_model, ref_model, capri_peptide) ==
    CalcFrame(sample_model, ref_model, <<"A">>, <<"B">>, <<"A">>, <<"B">>,
              FALSE, capri_peptide)

CalcInit ==
    /\ call = [fn |-> "calc_DockQ"]
    /\ ret = NoResult
    /\ pc = "calc_DockQ"
    /\ args = Idle
    /\ ml = Idle
    /\ \/ \E nat \in NativeInputs, capri_peptide \in BOOLEAN :
             \E sample_model \in ModelsOf(nat) :
                c = CalcCall(sample_model, NativeOf(nat), capri_peptide)
       \/ c = CalcCall(ExampleModel, ExampleNative, FALSE)
    /\ stdout = <<>>
    /\ outcome = Running

CalcNext == calc_DockQ_step

SpecCalc == CalcInit /\ [][CalcNext]_vars

----------------------------------------------------------------------------
(* C3 *)

\* the least distance between an atom of one residue and an atom of another
MinResidueDistance(res1, res2) ==
    SetMin({Abs(res1.atoms[a].coord - res2.atoms[b].coord) :
              a \in 1..Len(res1.atoms), b \in 1..Len(res2.atoms)})

\* the residue pairs (i, j), 0-based, of two groups closer than thr
ContactSet(structure, group1, group2, thr) ==
    {ij \in (0..Len(GroupResidues(structure, group1)) - 1)
            \X (0..Len(GroupResidues(structure, group2)) - 1) :
        MinResidueDistance(GroupResidues(structure, group1)[ij[1] + 1],
                           GroupResidues(structure, group2)[ij[2] + 1]) < thr}

SameIndexSpace ==
    /\ Len(GroupResidues(c.sample_model, c.group1))
         = Len(GroupResidues(c.ref_model, c.nat_group1))
    /\ Len(GroupResidues(c.sample_model, c.group2))
         = Len(GroupResidues(c.ref_model, c.nat_group2))

ModelContacts == ContactSet(c.sample_model, c.group1, c.group2, c.threshold)
NativeContacts == ContactSet(c.ref_model, c.nat_group1, c.nat_group2, c.threshold)

GetFnatReturned == call.fn = "calc_DockQ" /\ c.counts.tag = "ok"

\* C3: a residue pair is a contact iff its least atom distance is strictly
\* below the threshold, and over one index space get_fnat returns
\* |M \cap N|, |M \ N|, |N| and |M|; the worked case gives 8, 1, 10, 9 and
\* so fnat = 8/10 and fnonnat = 1/9.
C3_ContactCounts ==
    /\ (GetFnatReturned /\ SameIndexSpace) =>
          /\ c.counts.value.n_shared_contacts
                = Cardinality(ModelContacts \cap NativeContacts)
          /\ c.counts.value.n_non_native_contacts
                = Cardinality(ModelContacts \ NativeContacts)
          /\ c.counts.value.n_native_contacts = Cardinality(NativeContacts)
          /\ c.counts.value.n_model_contacts = Cardinality(ModelContacts)
    /\ (GetFnatReturned /\ c.sample_model = ExampleModel
                        /\ c.ref_model = ExampleNative) =>
          /\ c.counts.value = [n_shared_contacts |-> 8, n_non_native_contacts |-> 1,
                               n_native_contacts |-> 10, n_model_contacts |-> 9]
          /\ c.fnat.tag # "unset" =>
                /\ c.fnat = [tag |-> "ratio", num |-> 8, den |-> 10]
                /\ c.fnonnat = [tag |-> "ratio", num |-> 1, den |-> 9]

\* get_fnat has returned on one index space, with contacts kept, lost and
\* added by the model, one of the native pairs lying at exactly the threshold
C3_Witness ==
    /\ GetFnatReturned /\ SameIndexSpace
    /\ c.sample_model # ExampleModel
    /\ c.counts.value.n_shared_contacts > 0
    /\ c.counts.value.n_non_native_contacts > 0
    /\ c.counts.value.n_shared_contacts < c.counts.value.n_native_contacts
    /\ \E i \in 1..Len(GroupResidues(c.ref_model, c.nat_group1)),
          j \in 1..Len(GroupResidues(c.ref_model, c.nat_group2)) :
          MinResidueDistance(GroupResidues(c.ref_model, c.nat_group1)[i],
                             GroupResidues(c.ref_model, c.nat_group2)[j])
             = c.threshold

----------------------------------------------------------------------------
(* C4 *)

DenominatorZero ==
    /\ GetFnatReturned
    /\ \/ c.counts.value.n_native_contacts = 0
       \/ c.counts.value.n_model_contacts = 0

\* C4: with no native contact or no model contact calc_DockQ stops in an
\* error: it gives fnat and fnonnat no value and goes no further.
C4_ZeroContactsStop ==
    DenominatorZero =>
        /\ c.fnat.tag = "unset"
        /\ c.fnonnat.tag = "unset"
        /\ pc \in {"calc_ratios", "stopped"}

----------------------------------------------------------------------------
(* C5 *)

\* the atom that stands for a residue when all_atom is false
Representative(res) ==
    IF HasAtom(res, "CB") THEN AtomNamed(res, "CB") ELSE AtomNamed(res, "CA")

InterfaceDistance(res1, res2, all_atom) ==
    IF all_atom THEN MinResidueDistance(res1, res2)
    ELSE Abs(Representative(res1).coord - Representative(res2).coord)

\* the native residue pairs (i, j), 0-based, below the interface threshold
PositivePairs ==
    {ij \in (0..Len(GroupResidues(c.ref_model, c.nat_group1)) - 1)
            \X (0..Len(GroupResidues(c.ref_model, c.nat_group2)) - 1) :
        InterfaceDistance(GroupResidues(c.ref_model, c.nat_group1)[ij[1] + 1],
                          GroupResidues(c.ref_model, c.nat_group2)[ij[2] + 1],
                          c.all_atom) < c.interface_threshold}

\* how many pairs of S come before ij in row-major order
RowMajorRank(ij, S) ==
    Cardinality({x \in S : x[1] < ij[1] \/ (x[1] = ij[1] /\ x[2] < ij[2])})

GetInterfaceReturned == call.fn = "calc_DockQ" /\ c.interface.tag = "ok"

\* C5: get_interface returns two lists of length 2P; entries 2k and 2k+1 are
\* the residues of the k-th positive native pair (i, j) in row-major order:
\* the i-th of group1 and the j-th of group2, of the native in the native
\* list and of the model in the model list.
C5_InterfaceCorrespondence ==
    GetInterfaceReturned =>
        /\ Len(c.interface.value.ref_interface) = 2 * Cardinality(PositivePairs)
        /\ Len(c.interface.value.model_interface) = 2 * Cardinality(PositivePairs)
        /\ \A ij \in PositivePairs :
              /\ c.interface.value.ref_interface[2 * RowMajorRank(ij, PositivePairs) + 1]
                    = GroupResidues(c.ref_model, c.nat_group1)[ij[1] + 1]
              /\ c.interface.value.ref_interface[2 * RowMajorRank(ij, PositivePairs) + 2]
                    = GroupResidues(c.ref_model, c.nat_group2)[ij[2] + 1]
              /\ c.interface.value.model_interface[2 * RowMajorRank(ij, PositivePairs) + 1]
                    = GroupResidues(c.sample_model, c.group1)[ij[1] + 1]
              /\ c.interface.value.model_interface[2 * RowMajorRank(ij, PositivePairs) + 2]
                    = GroupResidues(c.sample_model, c.group2)[ij[2] + 1]

\* get_interface has returned for a native with some pairs inside and some
\* outside the interface, two of them in different rows and columns, the
\* one in the earlier row in the later column
C5_Witness ==
    /\ GetInterfaceReturned
    /\ Cardinality(PositivePairs)
          < Len(GroupResidues(c.ref_model, c.nat_group1))
            * Len(GroupResidues(c.ref_model, c.nat_group2))
    /\ \E x \in PositivePairs, y \in PositivePairs : x[1] < y[1] /\ x[2] > y[2]

----------------------------------------------------------------------------
(* Scorer: the DockQ formula of calc_DockQ, in exact fractions             *)

RECURSIVE GCD(_, _)
GCD(a, b) == IF b = 0 THEN a ELSE GCD(b, a % b)

\* the fraction n/d in lowest terms, d > 0
Frac(n, d) == [num |-> n \div GCD(Abs(n), d), den |-> d \div GCD(Abs(n), d)]

FracAdd(x, y) == Frac(x.num * y.den + y.num * x.den, x.den * y.den)
FracMul(x, y) == Frac(x.num * y.num, x.den * y.den)
\* x / y for y > 0
FracDiv(x, y) == Frac(x.num * y.den, x.den * y.num)
FracLess(x, y) == x.num * y.den < y.num * x.den

One == Frac(1, 1)
Zero == Frac(0, 1)

\* 1 / (1 + (rms / scale) * (rms / scale))
RmsTerm(rms, scale) ==
    FracDiv(One, FracAdd(One, FracMul(FracDiv(rms, scale), FracDiv(rms, scale))))

\* the sum of the three terms, not divided by 3
DockQ_score_sum(fnat, irms, Lrms) ==
    FracAdd(FracAdd(fnat, RmsTerm(irms, Frac(3, 2))), RmsTerm(Lrms, Frac(17, 2)))

\* lines 426-430
DockQ_score(fnat, irms, Lrms) ==
    FracDiv(FracAdd(FracAdd(fnat, RmsTerm(irms, Frac(3, 2))),
                    RmsTerm(Lrms, Frac(17, 2))),
            Frac(3, 1))

\* most contacts of a native in a scored case
MaxContacts == 3
\* largest iRMS and LRMS of a scored case, in half angstroms
MaxRmsHalves == 12

ScoreInit ==
    /\ call \in {[fn |-> "DockQ", fnat |-> Frac(n, d), irms |-> Frac(i, 2),
                  Lrms |-> Frac(l, 2)] :
                    d \in 1..MaxContacts, n \in 0..MaxContacts,
                    i \in 0..MaxRmsHalves, l \in 0..MaxRmsHalves}
    /\ FracLess(call.fnat, One) \/ call.fnat = One
    /\ ret = NoResult
    /\ pc = "call"
    /\ args = Idle
    /\ ml = Idle
    /\ c = Idle
    /\ stdout = <<>>
    /\ outcome = Running

ScoreCall ==
    /\ call.fn = "DockQ"
    /\ ret.tag = "none"
    /\ ret' = [tag |-> "done",
               DockQ |-> DockQ_score(call.fnat, call.irms, call.Lrms)]
    /\ UNCHANGED <<args, ml, call, pc, c, stdout, outcome>>

ScoreNext == ScoreCall

SpecScore == ScoreInit /\ [][ScoreNext]_vars

----------------------------------------------------------------------------
(* Alignment mapper: align_sequence_features                               *)

GapSymbol == "-"
Sentinel == 0 - 1

\* np.where(aligned != "-")[0]
NonGapIndexes(aligned) ==
    SelectSeq(Range0(Len(aligned)), LAMBDA k : aligned[k + 1] # GapSymbol)

\* The alignments the provider may hand back for two sequences: every pair of
\* equal-length gapped strings that spell the two sequences and have no
\* column of two gaps.
RECURSIVE Alignments(_, _)
Alignments(model_sequence, native_sequence) ==
    IF model_sequence = <<>> /\ native_sequence = <<>>
    THEN {[seqA |-> <<>>, seqB |-> <<>>]}
    ELSE
      (IF model_sequence # <<>> /\ native_sequence # <<>>
       THEN {[seqA |-> <<Head(model_sequence)>> \o a.seqA,
              seqB |-> <<Head(native_sequence)>> \o a.seqB] :
                a \in Alignments(Tail(model_sequence), Tail(native_sequence))}
       ELSE {})
      \cup
      (IF model_sequence # <<>>
       THEN {[seqA |-> <<Head(model_sequence)>> \o a.seqA,
              seqB |-> <<GapSymbol>> \o a.seqB] :
                a \in Alignments(Tail(model_sequence), native_sequence)}
       ELSE {})
      \cup
      (IF native_sequence # <<>>
       THEN {[seqA |-> <<GapSymbol>> \o a.seqA,
              seqB |-> <<Head(native_sequence)>> \o a.seqB] :
                a \in Alignments(model_sequence, Tail(native_sequence))}
       ELSE {})

\* align_sequence_features after the provider has returned `alignment`
align_sequence_features(alignment, native_numbering) ==
    LET model_sequence_aligned == alignment.seqA
        native_sequence_aligned == alignment.seqB
        model_indexes == NonGapIndexes(model_sequence_aligned)
        native_indexes == NonGapIndexes(native_sequence_aligned)
        alignment_length ==
            Cardinality({k \in 1..Len(model_sequence_aligned) :
                            /\ model_sequence_aligned[k] # GapSymbol
                            /\ native_sequence_aligned[k] # GapSymbol})
        dst == Take(native_indexes, alignment_length)
        src == Take(model_indexes, alignment_length)
    IN  IF \E k \in 1..Len(src) : src[k] >= Len(native_numbering)
        THEN [tag |-> "IndexError"]
        ELSE IF \E k \in 1..Len(dst) : dst[k] >= Len(model_indexes)
        THEN [tag |-> "IndexError"]
        ELSE [tag |-> "ok",
              value |-> [p \in 1..Len(model_indexes) |->
                           IF \E k \in 1..Len(dst) : dst[k] = p - 1
                           THEN native_numbering[
                                  src[CHOOSE k \in 1..Len(dst) : dst[k] = p - 1] + 1]
                           ELSE Sentinel]]

\* Inputs of the alignment mapper
ResidueLetters == {"A"}

SequencesUpTo(n) == UNION {[1..l -> ResidueLetters] : l \in 1..n}

\* strictly increasing residue numbers, one per native residue
Numberings(n) ==
    {nn \in [1..n -> 1..MaxResNum] : \A i \in 1..n - 1 : nn[i] < nn[i + 1]}

AlignInit ==
    /\ call \in {[fn |-> "align_sequence_features",
                  model_sequence |-> ms,
                  native_sequence |-> ns,
                  native_numbering |-> nn] :
                    ms \in SequencesUpTo(MaxSeqLen),
                    ns \in SequencesUpTo(MaxSeqLen),
                    nn \in UNION {Numberings(l) : l \in 1..MaxSeqLen}}
    /\ Len(call.native_numbering) = Len(call.native_sequence)
    /\ ret = NoResult
    /\ pc = "call"
    /\ args = Idle
    /\ ml = Idle
    /\ c = Idle
    /\ stdout = <<>>
    /\ outcome = Running

AlignCall ==
    /\ call.fn = "align_sequence_features"
    /\ ret.tag = "none"
    /\ \E alignment \in Alignments(call.model_sequence, call.native_sequence) :
         ret' = [tag |-> "done",
                 alignment |-> alignment,
                 result |-> align_sequence_features(alignment,
                                                     call.native_numbering)]
    /\ UNCHANGED <<args, ml, call, pc, c, stdout, outcome>>

AlignNext == AlignCall

SpecAlign == AlignInit /\ [][AlignNext]_vars

----------------------------------------------------------------------------
(* C2 *)

\* the native residue number model position p (0-based) should receive
ExpectedNumber(alignment, native_numbering, p) ==
    LET column == NonGapIndexes(alignment.seqA)[p + 1] + 1
        nativeBefore == Cardinality({k \in 1..column - 1 :
                                        alignment.seqB[k] # GapSymbol})
    IN  IF alignment.seqB[column] = GapSymbol
        THEN Sentinel
        ELSE native_numbering[nativeBefore + 1]

\* C2: for every alignment the provider hands back, align_sequence_features
\* returns one entry per model position, holding the number of the native
\* residue in the same alignment column, or -1 opposite a gap.
C2_MappingFollowsColumns ==
    (call.fn = "align_sequence_features" /\ ret.tag = "done") =>
        /\ ret.result.tag = "ok"
        /\ Len(ret.result.value) = Len(call.model_sequence)
        /\ \A p \in 0..Len(call.model_sequence) - 1 :
              ret.result.value[p + 1] =
                 ExpectedNumber(ret.alignment, call.native_numbering, p)

----------------------------------------------------------------------------
(* main: chain lists, group selection, realignment, permutation search     *)

\* most chains in a structure handed to main
MaxChains == 3

\* an option that was not given; nargs="+" never yields an empty list
None == <<>>

\* sys.exit() without an argument: the process ends with status 0
SysExit == [tag |-> "exit", status |-> 0]

\* Bio.SeqUtils.seq1 on the residue names of the model
seq1(resname) ==
    IF resname = "GLY" THEN "G" ELSE IF resname = "ALA" THEN "A" ELSE "X"

ChainSequence(chain) ==
    [r \in 1..Len(chain.residues) |-> seq1(chain.residues[r].resname)]

ChainNumbering(chain) ==
    [r \in 1..Len(chain.residues) |-> chain.residues[r].id]

\* the score pairwise2 gives column k of a local alignment that starts at
\* column first: match 5, mismatch 0, gap open -10, gap extend -1
ColumnScore(alignment, k, first) ==
    IF alignment.seqA[k] = GapSymbol
    THEN (IF k > first /\ alignment.seqA[k - 1] = GapSymbol THEN 0 - 1 ELSE 0 - 10)
    ELSE IF alignment.seqB[k] = GapSymbol
    THEN (IF k > first /\ alignment.seqB[k - 1] = GapSymbol THEN 0 - 1 ELSE 0 - 10)
    ELSE IF alignment.seqA[k] = alignment.seqB[k] THEN 5 ELSE 0

RECURSIVE WindowScore(_, _, _, _)
WindowScore(alignment, first, k, last) ==
    IF k > last THEN 0
    ELSE ColumnScore(alignment, k, first) + WindowScore(alignment, first, k + 1, last)

SetMax(S) == CHOOSE x \in S : \A y \in S : x >= y

\* the score of the best run of columns of an alignment
LocalScore(alignment) ==
    SetMax({0} \cup {WindowScore(alignment, first, first, last) :
                        first \in 1..Len(alignment.seqA),
                        last \in 1..Len(alignment.seqA)})

BestOf(alignments, best) ==
    IF best <= 0 THEN {}
    ELSE {a \in alignments : LocalScore(a) = best}

\* pairwise2.align.localms(model_sequence, native_sequence, match=5,
\* mismatch=0, open=-10, extend=-1): the alignments of the best score, none
\* when nothing scores above 0
localms(model_sequence, native_sequence) ==
    BestOf(Alignments(model_sequence, native_sequence),
           SetMax({0} \cup {LocalScore(a) :
                              a \in Alignments(model_sequence, native_sequence)}))

\* lines 536-552; the [0] of line 591 raises IndexError on an empty list of
\* alignments, any of the best alignments may come first
align_model_to_native(model_structure, native_structure, model_chain, native_chain) ==
    IF ~HasChain(model_structure, model_chain) \/ ~HasChain(native_structure, native_chain)
    THEN {Raise("KeyError")}
    ELSE IF localms(ChainSequence(ChainOf(model_structure, model_chain)),
                    ChainSequence(ChainOf(native_structure, native_chain))) = {}
    THEN {Raise("IndexError")}
    ELSE {align_sequence_features(
              alignment, ChainNumbering(ChainOf(native_structure, native_chain))) :
            alignment \in localms(ChainSequence(ChainOf(model_structure, model_chain)),
                                  ChainSequence(ChainOf(native_structure, native_chain)))}

\* lines 555-559: detach_child shortens the list the loop is walking, so the
\* chain after a removed one is never looked at
RECURSIVE remove_extra_chains_from(_, _, _)
remove_extra_chains_from(model, k, chains_to_keep) ==
    IF k > Len(model) THEN model
    ELSE IF model[k].id \notin Values(chains_to_keep)
    THEN remove_extra_chains_from(SubSeq(model, 1, k - 1) \o SubSeq(model, k + 1, Len(model)),
                                  k + 1, chains_to_keep)
    ELSE remove_extra_chains_from(model, k + 1, chains_to_keep)

remove_extra_chains(model, chains_to_keep) ==
    remove_extra_chains_from(model, 1, chains_to_keep)

\* lines 565-569: residue k of the chain against entry k of the mapping.
\* Assigning residue.id raises ValueError when another residue of the chain
\* holds that id, and does nothing when the residue already has it.
RECURSIVE Renumbered(_, _, _, _)
Renumbered(residues, aligned_chain_sequence, k, residues_to_delete) ==
    IF k > Min2(Len(residues), Len(aligned_chain_sequence))
    THEN Ok([residues |-> residues, residues_to_delete |-> residues_to_delete])
    ELSE IF aligned_chain_sequence[k] = Sentinel
    THEN Renumbered(residues, aligned_chain_sequence, k + 1,
                    residues_to_delete \cup {residues[k].id})
    ELSE IF aligned_chain_sequence[k] = residues[k].id
    THEN Renumbered(residues, aligned_chain_sequence, k + 1, residues_to_delete)
    ELSE IF \E j \in 1..Len(residues) : residues[j].id = aligned_chain_sequence[k]
    THEN Raise("ValueError")
    ELSE Renumbered([residues EXCEPT ![k].id = aligned_chain_sequence[k]],
                    aligned_chain_sequence, k + 1, residues_to_delete)

\* lines 571-572
Detached(r) ==
    SelectSeq(r.residues, LAMBDA res : res.id \notin r.residues_to_delete)

ReplaceResidues(model, chain, residues) ==
    [i \in 1..Len(model) |->
        IF model[i].id = chain THEN [model[i] EXCEPT !.residues = residues]
        ELSE model[i]]

\* lines 562-572
fix_chain_residues(model, chain, aligned_chain_sequence) ==
    IF ~HasChain(model, chain) THEN Raise("KeyError")
    ELSE Bind(Renumbered(ChainOf(model, chain).residues, aligned_chain_sequence,
                         1, {}),
              LAMBDA r : Ok(ReplaceResidues(model, chain, Detached(r))))

\* lines 773-774 for one pair of chains: every structure the model may
\* become, or the exception raised
Realigned(model_structure, native_structure, model_chain, native_chain) ==
    {Bind(aligned, LAMBDA a : fix_chain_residues(model_structure, model_chain, a)) :
        aligned \in align_model_to_native(model_structure, native_structure,
                                          model_chain, native_chain)}

\* [c for c in chains if c not in group]
Complement(chains, group) ==
    SelectSeq(chains, LAMBDA x : x \notin Values(group))

\* lines 734-750
GroupsFromModelFlags(model_chains, native_chains) ==
    IF args.model_chain1 # None
    THEN [group1 |-> args.model_chain1,
          group2 |-> IF args.model_chain2 # None THEN args.model_chain2
                     ELSE Complement(model_chains, args.model_chain1),
          nat_group1 |-> args.model_chain1,
          nat_group2 |-> IF args.model_chain2 # None THEN args.model_chain2
                         ELSE Complement(model_chains, args.model_chain1)]
    ELSE [group1 |-> model_chains[1], group2 |-> model_chains[2],
          nat_group1 |-> native_chains[1], nat_group2 |-> native_chains[2]]

\* lines 752-761
GroupsFromNativeFlags(g, native_chains) ==
    IF args.native_chain1 # None
    THEN [g EXCEPT !.nat_group1 = args.native_chain1,
                   !.nat_group2 = IF args.native_chain2 # None
                                  THEN args.native_chain2
                                  ELSE Complement(native_chains, args.native_chain1)]
    ELSE g

\* lines 763-765
GroupsDefaulted(g) ==
    IF args.model_chain1 = None
    THEN [g EXCEPT !.group1 = g.nat_group1, !.group2 = g.nat_group2]
    ELSE g

Without(s, i) == SubSeq(s, 1, i - 1) \o SubSeq(s, i + 1, Len(s))

Prepended(x, seqs) == [k \in 1..Len(seqs) |-> <<x>> \o seqs[k]]

\* list(itertools.permutations(s))
RECURSIVE itertools_permutations(_)
itertools_permutations(s) ==
    IF s = <<>> THEN << <<>> >>
    ELSE Concat([i \in 1..Len(s) |-> Prepended(s[i], itertools_permutations(Without(s, i)))])

\* list(itertools.combinations(s, len(s)))
itertools_combinations(s) == << s >>

\* the locals of main after lines 687-718
MainFrame(model_structure, native_structure, model_chains, native_chains) ==
    [tag |-> "main",
     model_structure |-> model_structure, native_structure |-> native_structure,
     model_chains |-> model_chains, native_chains |-> native_chains,
     best_info |-> "",
     group1 |-> Unset, group2 |-> Unset, nat_group1 |-> Unset, nat_group2 |-> Unset,
     k |-> 1,
     pe |-> 0, pe_tot |-> Unset, best_DockQ |-> Unset, best_g1 |-> Unset,
     best_g2 |-> Unset, combos1 |-> <<>>, combos2 |-> <<>>, i1 |-> 1, i2 |-> 1,
     site |-> "none",
     scored |-> <<>>]

\* lines 687-718; the installed Biopython is recent enough
main_parse ==
    /\ pc = "main"
    /\ ml' = MainFrame(call.model, call.native,
                      IF args.skip_check THEN <<>> ELSE ChainIds(call.model),
                      IF args.skip_check THEN <<>> ELSE ChainIds(call.native))
    /\ pc' = "check_groups"
    /\ UNCHANGED <<args, call, ret, c, stdout, outcome>>

\* lines 720-728
main_check_groups ==
    /\ pc = "check_groups"
    /\ IF /\ Len(ml.model_chains) > 2 \/ Len(ml.native_chains) > 2
          /\ args.model_chain1 = None
          /\ args.native_chain1 = None
       THEN /\ stdout' = stdout \o <<"Multi-chain model need sets of chains to group",
                                     "Model chains", "Native chains">>
            /\ outcome' = SysExit
            /\ pc' = "stopped"
       ELSE /\ pc' = "check_two"
            /\ UNCHANGED <<stdout, outcome>>
    /\ UNCHANGED <<args, ml, call, ret, c>>

\* lines 729-731
main_check_two ==
    /\ pc = "check_two"
    /\ IF ~args.skip_check /\ (Len(ml.model_chains) < 2 \/ Len(ml.native_chains) < 2)
       THEN /\ stdout' = Append(stdout, "Need at least two chains in the two inputs")
            /\ outcome' = SysExit
            /\ pc' = "stopped"
       ELSE /\ pc' = "select_groups"
            /\ UNCHANGED <<stdout, outcome>>
    /\ UNCHANGED <<args, ml, call, ret, c>>

WithGroups(g) ==
    [ml EXCEPT !.group1 = g.group1, !.group2 = g.group2,
              !.nat_group1 = g.nat_group1, !.nat_group2 = g.nat_group2]

\* lines 733-765, and the branch to line 896
main_select_groups ==
    /\ pc = "select_groups"
    /\ IF Len(ml.model_chains) > 2 \/ Len(ml.native_chains) > 2
       THEN /\ ml' = WithGroups(GroupsDefaulted(GroupsFromNativeFlags(
                        GroupsFromModelFlags(ml.model_chains, ml.native_chains),
                        ml.native_chains)))
            /\ pc' = "remove_extra_chains"
       ELSE /\ pc' = "two_chain_call"
            /\ UNCHANGED ml
    /\ UNCHANGED <<args, call, ret, c, stdout, outcome>>

\* lines 768-769
main_remove_extra_chains ==
    /\ pc = "remove_extra_chains"
    /\ ml' = [ml EXCEPT
               !.model_structure = remove_extra_chains(@, ml.group1 \o ml.group2),
               !.native_structure = remove_extra_chains(@, ml.nat_group1 \o ml.nat_group2)]
    /\ pc' = "realign"
    /\ UNCHANGED <<args, call, ret, c, stdout, outcome>>

RealignStep(r) ==
    IF r.tag = "ok"
    THEN /\ ml' = [ml EXCEPT !.model_structure = r.value, !.k = @ + 1]
         /\ pc' = "realign"
         /\ UNCHANGED outcome
    ELSE /\ outcome' = Uncaught(r.tag)
         /\ pc' = "stopped"
         /\ UNCHANGED ml

\* lines 772-774, one pair of zip(group1 + group2, nat_group1 + nat_group2)
\* at a time, then line 784
main_realign ==
    /\ pc = "realign"
    /\ IF ml.k > Min2(Len(ml.group1 \o ml.group2), Len(ml.nat_group1 \o ml.nat_group2))
       THEN /\ pc' = "perm_setup"
            /\ UNCHANGED <<ml, outcome>>
       ELSE \E r \in Realigned(ml.model_structure, ml.native_structure,
                               (ml.group1 \o ml.group2)[ml.k],
                               (ml.nat_group1 \o ml.nat_group2)[ml.k]) :
               RealignStep(r)
    /\ UNCHANGED <<args, call, ret, c, stdout>>

\* lines 784-814, and the branch to line 877
main_perm_setup ==
    /\ pc = "perm_setup"
    /\ IF args.perm1 \/ args.perm2
       THEN /\ ml' = [ml EXCEPT
                       !.best_DockQ = Frac(0 - 1, 1),
                       !.best_g1 = <<>>,
                       !.best_g2 = <<>>,
                       !.combos1 = IF args.perm1 THEN itertools_permutations(ml.group1)
                                   ELSE itertools_combinations(ml.group1),
                       !.combos2 = IF args.perm2 THEN itertools_permutations(ml.group2)
                                   ELSE itertools_combinations(ml.group2),
                       !.pe_tot = Len(IF args.perm1 THEN itertools_permutations(ml.group1)
                                      ELSE itertools_combinations(ml.group1))
                                  * Len(IF args.perm2 THEN itertools_permutations(ml.group2)
                                        ELSE itertools_combinations(ml.group2)),
                       !.pe = 1]
            /\ stdout' = IF args.verbose
                         THEN Append(stdout, "Starting chain order permutation search")
                         ELSE stdout
            /\ pc' = "perm_iter"
       ELSE /\ pc' = "single"
            /\ UNCHANGED <<ml, stdout>>
    /\ UNCHANGED <<args, call, ret, c, outcome>>

\* One candidate scored by the search: its orderings, the groups handed to
\* calc_DockQ for it, and the DockQ recorded for it.
ScoredEntry(g1, g2, group1, group2) ==
    [g1 |-> g1, g2 |-> g2, group1 |-> group1, group2 |-> group2, DockQ |-> Unset]

\* lines 817-837 and 877-891: make_two_chain_pdb_perm reads the chains of
\* g1 and g2 from the model file and runs renumber_pdb.pl; unless -no_needle
\* is given fix_numbering.pl runs next, the renumbered file is removed and
\* the fixed file must exist; then calc_DockQ is called with group1 and
\* group2 and without capri_peptide.
PrepareAndScore(g1, g2, site, renum_written, fixed_written) ==
    IF ~HasChains(call.model, g1 \o g2)
    THEN /\ outcome' = Uncaught("KeyError")
         /\ pc' = "stopped"
         /\ UNCHANGED <<ml, c, stdout>>
    ELSE IF ~args.no_needle /\ ~renum_written
    THEN /\ outcome' = Uncaught("FileNotFoundError")
         /\ pc' = "stopped"
         /\ UNCHANGED <<ml, c, stdout>>
    ELSE IF ~args.no_needle /\ ~fixed_written
    THEN /\ stdout' = Append(stdout,
              "If you are sure the residues are identical you can use the options -no_needle")
         /\ outcome' = SysExit
         /\ pc' = "stopped"
         /\ UNCHANGED <<ml, c>>
    ELSE /\ c' = CalcFrame(ml.model_structure, ml.native_structure,
                           ml.group1, ml.group2, ml.nat_group1, ml.nat_group2,
                           args.useCA, FALSE)
         /\ ml' = [ml EXCEPT !.site = site,
                           !.scored = Append(@, ScoredEntry(g1, g2, ml.group1, ml.group2))]
         /\ pc' = "calc_DockQ"
         /\ UNCHANGED <<stdout, outcome>>

\* lines 815-837: the candidate the loops are at
main_perm_iter ==
    /\ pc = "perm_iter"
    /\ \E renum_written \in BOOLEAN, fixed_written \in BOOLEAN :
          PrepareAndScore(ml.combos1[ml.i1], ml.combos2[ml.i2], "perm_search",
                          renum_written, fixed_written)
    /\ UNCHANGED <<args, call, ret>>

\* lines 877-891
main_single ==
    /\ pc = "single"
    /\ \E renum_written \in BOOLEAN, fixed_written \in BOOLEAN :
          PrepareAndScore(ml.group1, ml.group2, "single", renum_written, fixed_written)
    /\ UNCHANGED <<args, call, ret>>

\* lines 896-898: calc_DockQ is called without group1, group2, nat_group1
\* and nat_group2, which have no default
main_two_chain_call ==
    /\ pc = "two_chain_call"
    /\ outcome' = Uncaught("TypeError")
    /\ pc' = "stopped"
    /\ ml' = [ml EXCEPT !.site = "two_chain"]
    /\ UNCHANGED <<args, call, ret, c, stdout>>

\* Inputs of main
ChainNames == <<"A", "B", "C", "D", "E">>

\* chain k holds one glycine, 3 to the right of the chain before it
ComplexOf(n) ==
    [k \in 1..n |-> MakeChain(ChainNames[k], <<Glycine(3 * k - 2)>>, <<0>>)]

MainStructures == {ComplexOf(n) : n \in 1..MaxChains}

ArgsInputs ==
    [model_chain1 : {None, <<"A">>, <<"A", "B">>},
     model_chain2 : {None, <<"B">>, <<"C">>, <<"B", "C">>},
     native_chain1 : {None, <<"A">>},
     native_chain2 : {None, <<"B">>},
     capri_peptide : BOOLEAN,
     skip_check : BOOLEAN,
     no_needle : BOOLEAN,
     perm1 : BOOLEAN,
     perm2 : BOOLEAN,
     useCA : {FALSE},
     verbose : BOOLEAN,
     quiet : {FALSE},
     short : {FALSE}]

MainInit ==
    /\ call \in {[fn |-> "main", model |-> model, native |-> native] :
                    model \in MainStructures, native \in MainStructures}
    /\ ret = NoResult
    /\ pc = "main"
    /\ args \in ArgsInputs
    /\ ml = Idle
    /\ c = Idle
    /\ stdout = <<>>
    /\ outcome = Running

MainNext ==
    \/ main_parse
    \/ main_check_groups
    \/ main_check_two
    \/ main_select_groups
    \/ main_remove_extra_chains
    \/ main_realign
    \/ main_perm_setup
    \/ main_perm_iter
    \/ main_single
    \/ main_two_chain_call
    \/ calc_DockQ_step

SpecMain == MainInit /\ [][MainNext]_vars

----------------------------------------------------------------------------
(* C1 *)

\* a model and a native of two chains each, in contact, and no chain-group
\* option on the command line
TwoChainRun ==
    /\ call.fn = "main"
    /\ Len(call.model) = 2 /\ Len(call.native) = 2
    /\ args.model_chain1 = None /\ args.model_chain2 = None
    /\ args.native_chain1 = None /\ args.native_chain2 = None
    /\ \A s \in {call.model, call.native} :
          /\ \A k \in 1..2 : Len(s[k].residues) > 0
          /\ ContactSet(s, <<s[1].id>>, <<s[2].id>>, 4) # {}

MetricsReported ==
    {"Fnat", "Fnonnat", "iRMS", "LRMS", "DockQ"} \subseteq Values(stdout)

\* C1: a run of main on two chains against two chains that meets every
\* precondition never stops in an error: when it stops it has reported the
\* metrics and its exit status is 0.
C1_TwoChainRunReports ==
    (TwoChainRun /\ pc = "stopped") =>
        /\ outcome.tag # "exception"
        /\ outcome.status = 0
        /\ MetricsReported

----------------------------------------------------------------------------
(* C7, C8 *)

\* main has called calc_DockQ with two non-empty, disjoint groups of chains
\* that both structures hold, residue for residue, and that are in contact
ScoringWellFormed ==
    /\ call.fn = "main" /\ c.tag = "frame"
    /\ c.group1 # <<>> /\ c.group2 # <<>>
    /\ Values(c.group1) \cap Values(c.group2) = {}
    /\ Values(c.nat_group1) \cap Values(c.nat_group2) = {}
    /\ HasChains(c.sample_model, c.group1 \o c.group2)
    /\ HasChains(c.ref_model, c.nat_group1 \o c.nat_group2)
    /\ SameIndexSpace
    /\ ContactSet(c.ref_model, c.nat_group1, c.nat_group2, 4) # {}
    /\ ContactSet(c.sample_model, c.group1, c.group2, 4) # {}

InSearch == ScoringWellFormed /\ ml.site = "perm_search"

\* C7: every candidate the permutation search has handed to the scoring
\* pipeline was scored with its own orderings g1 and g2 as the model groups,
\* and a DockQ was recorded for it.
C7_CandidateScoredOnItsOrderings ==
    (InSearch /\ pc = "stopped") =>
        \A k \in 1..Len(ml.scored) :
            /\ ml.scored[k].group1 = ml.scored[k].g1
            /\ ml.scored[k].group2 = ml.scored[k].g2
            /\ ml.scored[k].DockQ.tag = "ok"

\* C8: when the permutation search is over it has visited every candidate,
\* best_DockQ is the largest DockQ of all candidates, and best_g1, best_g2
\* are the orderings of the earliest candidate with that DockQ.
C8_EarliestMaximumReported ==
    (InSearch /\ pc = "stopped") =>
        /\ Len(ml.scored) = Len(ml.combos1) * Len(ml.combos2)
        /\ \A k \in 1..Len(ml.scored) : ml.scored[k].DockQ.tag = "ok"
        /\ \E k \in 1..Len(ml.scored) :
              /\ ml.best_DockQ = ml.scored[k].DockQ.value
              /\ ml.best_g1 = ml.scored[k].g1
              /\ ml.best_g2 = ml.scored[k].g2
              /\ \A j \in 1..Len(ml.scored) :
                    ~FracLess(ml.scored[k].DockQ.value, ml.scored[j].DockQ.value)
              /\ \A j \in 1..k - 1 :
                    FracLess(ml.scored[j].DockQ.value, ml.scored[k].DockQ.value)

----------------------------------------------------------------------------
(* C9 *)

NeedsGroups ==
    /\ Len(call.model) > 2 \/ Len(call.native) > 2
    /\ args.model_chain1 = None
    /\ args.native_chain1 = None

TooFewChains == Len(call.model) < 2 \/ Len(call.native) < 2

DiagnosticPrinted ==
    \/ "Multi-chain model need sets of chains to group" \in Values(stdout)
    \/ "Need at least two chains in the two inputs" \in Values(stdout)

\* C9: with more than two chains on a side and neither -model_chain1 nor
\* -native_chain1, or with fewer than two chains on a side, main computes no
\* score, and it stops with a diagnostic printed and a nonzero exit status.
C9_ChainCountRejected ==
    (call.fn = "main" /\ (NeedsGroups \/ TooFewChains)) =>
        /\ c.tag = "idle"
        /\ pc = "stopped" => (DiagnosticPrinted /\ outcome.status # 0)

----------------------------------------------------------------------------
(* C10 *)

\* C10: whenever main has reached the scoring call and calc_DockQ has set
\* its thresholds, they are those of the mode of the command line: 4, 8 and
\* one atom per residue with -capri_peptide, 5, 10 and all atoms without.
C10_ThresholdsFollowMode ==
    (ScoringWellFormed /\ pc # "calc_DockQ") =>
        /\ c.threshold = (IF args.capri_peptide THEN 4 ELSE 5)
        /\ c.interface_threshold = (IF args.capri_peptide THEN 8 ELSE 10)
        /\ c.all_atom = ~args.capri_peptide

----------------------------------------------------------------------------
(* fix_chain_residues called directly                                      *)

\* a chain of glycines carrying the given residue numbers
NumberedChain(id, numbering) ==
    [id |-> id,
     residues |-> [r \in 1..Len(numbering) |->
                     [chain |-> id, id |-> numbering[r], resname |-> "GLY",
                      atoms |-> <<Atom("CA", r)>>]]]

\* The mappings of a chain of n residues: -1 or a native number per
\* position, the native numbers increasing along the chain.
Mappings(n) ==
    {a \in [1..n -> {Sentinel} \cup (1..MaxResNum)] :
        \A i \in 1..n, j \in 1..n :
            (i < j /\ a[i] # Sentinel /\ a[j] # Sentinel) => a[i] < a[j]}

FixInit ==
    /\ \E n \in 1..MaxSeqLen :
          \E numbering \in Numberings(n), aligned \in Mappings(n) :
             call = [fn |-> "fix_chain_residues",
                     model |-> <<NumberedChain("A", numbering),
                                 NumberedChain("B", <<1>>)>>,
                     chain |-> "A",
                     aligned_chain_sequence |-> aligned]
    /\ ret = NoResult
    /\ pc = "call"
    /\ args = Idle
    /\ ml = Idle
    /\ c = Idle
    /\ stdout = <<>>
    /\ outcome = Running

FixCall ==
    /\ call.fn = "fix_chain_residues"
    /\ ret.tag = "none"
    /\ ret' = [tag |-> "done",
               result |-> fix_chain_residues(call.model, call.chain,
                                             call.aligned_chain_sequence)]
    /\ UNCHANGED <<args, ml, call, pc, c, stdout, outcome>>

FixNext == FixCall

SpecFix == FixInit /\ [][FixNext]_vars

----------------------------------------------------------------------------
(* C11 *)

\* the residues with a mapped number, in their order, carrying that number
KeptAndRelabelled(residues, mapping) ==
    LET kept == SelectSeq(Range0(Len(residues)),
                          LAMBDA p : mapping[p + 1] # Sentinel)
    IN  [k \in 1..Len(kept) |->
            [residues[kept[k] + 1] EXCEPT !.id = mapping[kept[k] + 1]]]

\* C11: fix_chain_residues with a mapping as long as the chain leaves in the
\* chain exactly the residues whose mapped value is not -1, in their order,
\* each carrying its mapped number, and changes no other chain.
C11_KeepsMappedResidues ==
    (call.fn = "fix_chain_residues" /\ ret.tag = "done") =>
        /\ ret.result.tag = "ok"
        /\ ChainOf(ret.result.value, "A").residues
              = KeptAndRelabelled(ChainOf(call.model, "A").residues,
                                  call.aligned_chain_sequence)
        /\ ChainOf(ret.result.value, "B") = ChainOf(call.model, "B")
        /\ Len(ret.result.value) = Len(call.model)

----------------------------------------------------------------------------
(* C12 *)

\* C12: whenever get_fnat returns counts, 0 <= n_shared <= n_native,
\* 0 <= n_nonnative <= n_model and n_shared + n_nonnative = n_model.
C12_CountBounds ==
    GetFnatReturned =>
        /\ 0 <= c.counts.value.n_shared_contacts
        /\ c.counts.value.n_shared_contacts <= c.counts.value.n_native_contacts
        /\ 0 <= c.counts.value.n_non_native_contacts
        /\ c.counts.value.n_non_native_contacts <= c.counts.value.n_model_contacts
        /\ c.counts.value.n_shared_contacts + c.counts.value.n_non_native_contacts
              = c.counts.value.n_model_contacts

----------------------------------------------------------------------------
(* The two classifiers, on exact decimal values. *)

FracLeq(x, y) == ~FracLess(y, x)

\* strict lower bounds: a value equal to a threshold falls in the class below
capri_class_DockQ_exclusive(DockQ, capri_peptide) ==
    IF capri_peptide THEN "Undef for capri_peptides"
    ELSE IF FracLeq(DockQ, Frac(23, 100)) THEN "Incorrect"
    ELSE IF FracLeq(DockQ, Frac(49, 100)) THEN "Acceptable"
    ELSE IF FracLeq(DockQ, Frac(80, 100)) THEN "Medium"
    ELSE "High"

\* lines 180-194; (c1, c2, c3) = (0.23, 0.49, 0.80)
capri_class_DockQ(DockQ, capri_peptide) ==
    IF capri_peptide THEN "Undef for capri_peptides"
    ELSE IF FracLess(DockQ, Frac(23, 100)) THEN "Incorrect"
    ELSE IF FracLeq(Frac(23, 100), DockQ) /\ FracLess(DockQ, Frac(49, 100))
         THEN "Acceptable"
    ELSE IF FracLeq(Frac(49, 100), DockQ) /\ FracLess(DockQ, Frac(80, 100))
         THEN "Medium"
    ELSE IF FracLeq(Frac(80, 100), DockQ) THEN "High"
    ELSE "Undef"

\* the ladder of lines 140-157 and 160-177 with its thresholds as parameters:
\* f1 < f2 < f3 on fnat, L1 > L2 > L3 on LRMS, i1 > i2 > i3 on iRMS
Ladder(fnat, iRMS, LRMS, f1, f2, f3, L1, L2, L3, i1, i2, i3) ==
    IF FracLess(fnat, f1) \/ (FracLess(L1, LRMS) /\ FracLess(i1, iRMS))
    THEN "Incorrect"
    ELSE IF \/ /\ FracLeq(f1, fnat) /\ FracLess(fnat, f2)
               /\ (FracLeq(LRMS, L1) \/ FracLeq(iRMS, i1))
            \/ (FracLeq(f2, fnat) /\ FracLess(L2, LRMS) /\ FracLess(i2, iRMS))
    THEN "Acceptable"
    ELSE IF \/ /\ FracLeq(f2, fnat) /\ FracLess(fnat, f3)
               /\ (FracLeq(LRMS, L2) \/ FracLeq(iRMS, i2))
            \/ (FracLeq(f3, fnat) /\ FracLess(L3, LRMS) /\ FracLess(i3, iRMS))
    THEN "Medium"
    ELSE IF FracLeq(f3, fnat) /\ (FracLeq(LRMS, L3) \/ FracLeq(iRMS, i3))
    THEN "High"
    ELSE "Undef"

\* the High branch asks for an RMS strictly below its threshold
capri_class_strict_high(fnat, iRMS, LRMS, capri_peptide) ==
    IF Ladder(fnat, iRMS, LRMS, Frac(1, 10), Frac(3, 10), Frac(1, 2),
              Frac(10, 1), Frac(5, 1), Frac(1, 1),
              Frac(4, 1), Frac(2, 1), Frac(1, 1)) # "High"
    THEN Ladder(fnat, iRMS, LRMS, Frac(1, 10), Frac(3, 10), Frac(1, 2),
                Frac(10, 1), Frac(5, 1), Frac(1, 1),
                Frac(4, 1), Frac(2, 1), Frac(1, 1))
    ELSE IF FracLess(LRMS, Frac(1, 1)) \/ FracLess(iRMS, Frac(1, 1))
    THEN "High"
    ELSE "Undef"

\* lines 137-177
capri_class(fnat, iRMS, LRMS, capri_peptide) ==
    IF capri_peptide
    THEN Ladder(fnat, iRMS, LRMS, Frac(1, 5), Frac(1, 2), Frac(4, 5),
                Frac(5, 1), Frac(2, 1), Frac(1, 1),
                Frac(2, 1), Frac(1, 1), Frac(1, 2))
    ELSE Ladder(fnat, iRMS, LRMS, Frac(1, 10), Frac(3, 10), Frac(1, 2),
                Frac(10, 1), Frac(5, 1), Frac(1, 1),
                Frac(4, 1), Frac(2, 1), Frac(1, 1))

\* DockQ values are taken on a grid of 1/DockQSteps ...
DockQSteps == 100
\* ... fnat on a grid of 1/FnatSteps ...
FnatSteps == 20
\* ... and LRMS in half angstroms up to MaxLrmsHalves (iRMS up to MaxRmsHalves)
MaxLrmsHalves == 22

\* values next to the three thresholds, and outside [0, 1]
DockQNearThresholds ==
    {Frac(2299999, 10000000), Frac(2300001, 10000000),
     Frac(4899999, 10000000), Frac(4900001, 10000000),
     Frac(7999999, 10000000), Frac(8000001, 10000000),
     Frac(23, 100), Frac(49, 100), Frac(80, 100),
     Frac(0 - 1, 1), Frac(3, 2)}

DockQValues == {Frac(n, DockQSteps) : n \in 0..DockQSteps} \cup DockQNearThresholds

ClassInit ==
    /\ \/ \E d \in DockQValues, p \in BOOLEAN :
            call = [fn |-> "capri_class_DockQ", DockQ |-> d, capri_peptide |-> p]
       \/ \E n \in 0..FnatSteps, i \in 0..MaxRmsHalves, l \in 0..MaxLrmsHalves,
             p \in BOOLEAN :
            call = [fn |-> "capri_class", fnat |-> Frac(n, FnatSteps),
                    iRMS |-> Frac(i, 2), LRMS |-> Frac(l, 2), capri_peptide |-> p]
    /\ ret = NoResult
    /\ pc = "call"
    /\ args = Idle
    /\ ml = Idle
    /\ c = Idle
    /\ stdout = <<>>
    /\ outcome = Running

ClassDockQCall ==
    /\ call.fn = "capri_class_DockQ"
    /\ ret.tag = "none"
    /\ ret' = [tag |-> "done",
               class |-> capri_class_DockQ(call.DockQ, call.capri_peptide)]
    /\ UNCHANGED <<args, ml, call, pc, c, stdout, outcome>>

ClassCapriCall ==
    /\ call.fn = "capri_class"
    /\ ret.tag = "none"
    /\ ret' = [tag |-> "done",
               class |-> capri_class(call.fnat, call.iRMS, call.LRMS,
                                     call.capri_peptide)]
    /\ UNCHANGED <<args, ml, call, pc, c, stdout, outcome>>

ClassNext == ClassDockQCall \/ ClassCapriCall

SpecClass == ClassInit /\ [][ClassNext]_vars

QualityClasses == {"Incorrect", "Acceptable", "Medium", "High"}

DockQClassified == call.fn = "capri_class_DockQ" /\ ret.tag = "done"

\* C13: in standard mode a DockQ value below 0.23 is Incorrect, from 0.23 and
\* below 0.49 Acceptable, from 0.49 and below 0.80 Medium, from 0.80 High;
\* in peptide mode the class is never one of these four.
C13_DockQClassBounds ==
    DockQClassified =>
        IF call.capri_peptide
        THEN ret.class \notin QualityClasses
        ELSE /\ ret.class \in QualityClasses
             /\ ret.class = "Incorrect" <=> FracLess(call.DockQ, Frac(23, 100))
             /\ ret.class = "Acceptable" <=>
                   (~FracLess(call.DockQ, Frac(23, 100))
                       /\ FracLess(call.DockQ, Frac(49, 100)))
             /\ ret.class = "Medium" <=>
                   (~FracLess(call.DockQ, Frac(49, 100))
                       /\ FracLess(call.DockQ, Frac(4, 5)))
             /\ ret.class = "High" <=> ~FracLess(call.DockQ, Frac(4, 5))

\* a DockQ of exactly 0.23 has been classified Acceptable in standard mode
C13_Witness ==
    /\ DockQClassified
    /\ ~call.capri_peptide
    /\ call.DockQ = Frac(23, 100)
    /\ ret.class = "Acceptable"

CapriClassified == call.fn = "capri_class" /\ ret.tag = "done"

\* C20: for every fnat in [0, 1], iRMS >= 0 and LRMS >= 0, in both modes,
\* capri_class returns Incorrect, Acceptable, Medium or High and never Undef;
\* capri_class(1, 0, 0) is High in both modes.
C20_CapriClassTotal ==
    CapriClassified =>
        /\ ret.class \in QualityClasses
        /\ ret.class # "Undef"
        /\ (call.fnat = One /\ call.iRMS = Zero /\ call.LRMS = Zero)
               => ret.class = "High"

\* fnat = 1, iRMS = 0, LRMS = 0 has been classified High in peptide mode
C20_Witness ==
    /\ CapriClassified
    /\ call.capri_peptide
    /\ call.fnat = One /\ call.iRMS = Zero /\ call.LRMS = Zero
    /\ ret.class = "High"

----------------------------------------------------------------------------
(* C14 *)

\* calc_DockQ has superimposed the interface and has ended
EndedAfterInterfaceFit == pc = "stopped" /\ c.tag = "frame" /\ c.irms.tag = "rms"

\* C14: a call of calc_DockQ that got as far as labelling its two groups ends
\* by returning class1 and class2, one of them "receptor" and the other "ligand".
C14_RolesLabelled ==
    EndedAfterInterfaceFit =>
        /\ outcome.tag = "returned"
        /\ {outcome.info.class1, outcome.info.class2} = {"receptor", "ligand"}

----------------------------------------------------------------------------
(* One pass of the realignment loop of main (lines 772-774) on a model chain
   and a native chain of glycines, each with its own residue numbers. *)

RealignInit ==
    /\ \E n \in 1..MaxSeqLen, k \in 1..MaxSeqLen :
         \E model_numbering \in Numberings(n), native_numbering \in Numberings(k) :
            call = [fn |-> "realign",
                    model_structure |-> <<NumberedChain("A", model_numbering)>>,
                    native_structure |-> <<NumberedChain("A", native_numbering)>>,
                    model_chain |-> "A", native_chain |-> "A"]
    /\ ret = NoResult
    /\ pc = "call"
    /\ args = Idle
    /\ ml = Idle
    /\ c = Idle
    /\ stdout = <<>>
    /\ outcome = Running

\* line 773, with the alignment the provider handed back kept for inspection
RealignAlign ==
    /\ call.fn = "realign"
    /\ ret.tag = "none"
    /\ \E alignment \in localms(ChainSequence(ChainOf(call.model_structure, call.model_chain)),
                                ChainSequence(ChainOf(call.native_structure, call.native_chain))) :
         ret' = [tag |-> "aligned",
                 alignment |-> alignment,
                 aligned_model_sequence |->
                    align_sequence_features(
                        alignment,
                        ChainNumbering(ChainOf(call.native_structure, call.native_chain)))]
    /\ UNCHANGED <<args, ml, call, pc, c, stdout, outcome>>

\* line 774
RealignFix ==
    /\ call.fn = "realign"
    /\ ret.tag = "aligned"
    /\ ret.aligned_model_sequence.tag = "ok"
    /\ ret' = [ret EXCEPT !.tag = "done"] @@
              [result |-> fix_chain_residues(call.model_structure, call.model_chain,
                                             ret.aligned_model_sequence.value)]
    /\ UNCHANGED <<args, ml, call, pc, c, stdout, outcome>>

RealignNext == RealignAlign \/ RealignFix

SpecRealign == RealignInit /\ [][RealignNext]_vars

GapFree(alignment) ==
    \A k \in 1..Len(alignment.seqA) :
        alignment.seqA[k] # GapSymbol /\ alignment.seqB[k] # GapSymbol

\* the model chain spells the native chain and the two were aligned without gaps
IdenticalAligned ==
    /\ call.fn = "realign"
    /\ ret.tag \in {"aligned", "done"}
    /\ ChainSequence(ChainOf(call.model_structure, call.model_chain))
          = ChainSequence(ChainOf(call.native_structure, call.native_chain))
    /\ GapFree(ret.alignment)

\* C15: for a model chain spelling the native chain, aligned without gaps,
\* the mapping is the native numbering, position by position, with no -1,
\* and fix_chain_residues with it leaves the chain with all its residues.
C15_IdentityKeepsAll ==
    IdenticalAligned =>
        /\ ret.aligned_model_sequence
              = Ok(ChainNumbering(ChainOf(call.native_structure, call.native_chain)))
        /\ ret.tag = "done" =>
              /\ ret.result.tag = "ok"
              /\ Len(ChainOf(ret.result.value, call.model_chain).residues)
                    = Len(ChainOf(call.model_structure, call.model_chain).residues)

----------------------------------------------------------------------------
(* C16 *)

\* main has reached one of its calls of calc_DockQ
AtScoringCall == call.fn = "main" /\ ml.tag = "main" /\ ml.site # "none"

\* C16: in a run given -model_chain1, the scoring call is one that is handed
\* the chain groups (not the call of line 896, which is handed none), group1 is
\* the chains of -model_chain1 and group2 those of -model_chain2, or else the
\* model's other chains in file order; the native groups are the same unless
\* -native_chain1 is given, and then nat_group2 is -native_chain2 or the
\* native's chains outside nat_group1.  -skip_check makes no difference.
C16_GroupsFollowFlags ==
    (AtScoringCall /\ args.model_chain1 # None) =>
        /\ ml.site # "two_chain"
        /\ ml.group1 = args.model_chain1
        /\ ml.group2 = (IF args.model_chain2 # None THEN args.model_chain2
                        ELSE Complement(ChainIds(call.model), args.model_chain1))
        /\ ml.nat_group1 = (IF args.native_chain1 # None THEN args.native_chain1
                            ELSE ml.group1)
        /\ ml.nat_group2 =
              (IF args.native_chain1 = None THEN ml.group2
               ELSE IF args.native_chain2 # None THEN args.native_chain2
               ELSE Complement(ChainIds(call.native), args.native_chain1))

----------------------------------------------------------------------------
(* The atom-to-residue grouping called on chains whose residues may carry
   insertion codes: a residue id is (hetero flag, number, insertion code),
   and an inserted residue shares the number of the residue before it. *)

\* which residues after the first are insertions
InsertionFlags(n) == {f \in [1..n -> BOOLEAN] : ~f[1]}

\* the last residue up to r that is not an insertion
Anchor(inserted, r) == SetMax({k \in 1..r : ~inserted[k]})

\* residue.id[1] of residue r: numbers run 1, 2, ... over the residues that
\* are not insertions
ResSeq(inserted, r) == Cardinality({k \in 1..r : ~inserted[k]})

\* a chain from a sequence of templates; residue r sits r - 1 further along
\* than its template; icode 0 stands for the blank insertion code
InsertedChain(id, templates, inserted) ==
    [id |-> id,
     residues |-> [r \in 1..Len(templates) |->
                     [chain |-> id, id |-> ResSeq(inserted, r),
                      icode |-> r - Anchor(inserted, r),
                      resname |-> templates[r].resname,
                      atoms |-> ShiftAtoms(templates[r].atoms, r - 1)]]]

GroupingInit ==
    /\ \E ta \in TemplateSeqs(TemplatesA, MaxChainLen),
          tb \in TemplateSeqs(TemplatesB, MaxChainLen) :
         \E ia \in InsertionFlags(Len(ta)), ib \in InsertionFlags(Len(tb)) :
            call = [fn |-> "group_atom_into_res_distances",
                    model |-> <<InsertedChain("A", ta, ia), InsertedChain("B", tb, ib)>>,
                    group1 |-> <<"A">>, group2 |-> <<"B">>]
    /\ ret = NoResult
    /\ pc = "call"
    /\ args = Idle
    /\ ml = Idle
    /\ c = Idle
    /\ stdout = <<>>
    /\ outcome = Running

\* lines 639-640 and 644: the dictionaries of the two groups
GroupingDictionaries ==
    /\ call.fn = "group_atom_into_res_distances"
    /\ ret.tag = "none"
    /\ ret' = [tag |-> "dictionaries",
               group_dic1 |-> get_group_dictionary(call.model, call.group1),
               group_dic2 |-> get_group_dictionary(call.model, call.group2),
               atom_distances |->
                   get_distances_across_chains(call.model, call.group1,
                                               call.group2, TRUE)]
    /\ UNCHANGED <<args, ml, call, pc, c, stdout, outcome>>

\* line 647
GroupingCall ==
    /\ call.fn = "group_atom_into_res_distances"
    /\ ret.tag = "dictionaries"
    /\ ret.atom_distances.tag = "ok"
    /\ ret' = [ret EXCEPT !.tag = "done"] @@
              [res_distances |->
                  group_atom_into_res_distances(ret.atom_distances.value,
                                                ret.group_dic1, ret.group_dic2)]
    /\ UNCHANGED <<args, ml, call, pc, c, stdout, outcome>>

GroupingNext == GroupingDictionaries \/ GroupingCall

SpecGrouping == GroupingInit /\ [][GroupingNext]_vars

Grouped == call.fn = "group_atom_into_res_distances" /\ ret.tag = "done"

\* C17: the residue-level matrix has one row per residue of group1 and one
\* column per residue of group2, entry (i, j) is the smallest distance
\* between an atom of the i-th residue of group1 and an atom of the j-th
\* residue of group2, and the atom blocks of the dictionaries add up to the
\* rows and columns of the atom-level matrix.
C17_ResidueMinima ==
    Grouped =>
        /\ ret.res_distances.tag = "ok"
        /\ ret.res_distances.value.nrow = Len(GroupResidues(call.model, call.group1))
        /\ ret.res_distances.value.ncol = Len(GroupResidues(call.model, call.group2))
        /\ \A i \in 1..ret.res_distances.value.nrow,
              j \in 1..ret.res_distances.value.ncol :
                ret.res_distances.value.cell[i, j]
                    = MinResidueDistance(GroupResidues(call.model, call.group1)[i],
                                         GroupResidues(call.model, call.group2)[j])
        /\ CumAtoms(ret.group_dic1, Len(ret.group_dic1)) = ret.atom_distances.value.nrow
        /\ CumAtoms(ret.group_dic2, Len(ret.group_dic2)) = ret.atom_distances.value.ncol

----------------------------------------------------------------------------
(* C18 *)

\* the search was entered with well-formed groups and the run is over
SearchOver == InSearch /\ pc = "stopped"

\* C18: a run that entered the permutation search ends having scored every
\* pair of an ordering of group1 and an ordering of group2 once, in loop
\* order, pe_tot of them, pe_tot being the product of the two counts.
C18_SearchCoversAllOrderings ==
    SearchOver =>
        /\ ml.pe_tot = Len(ml.combos1) * Len(ml.combos2)
        /\ Len(ml.scored) = ml.pe_tot
        /\ \A k \in 1..Len(ml.scored) :
              /\ ml.scored[k].g1 = ml.combos1[((k - 1) \div Len(ml.combos2)) + 1]
              /\ ml.scored[k].g2 = ml.combos2[((k - 1) % Len(ml.combos2)) + 1]

----------------------------------------------------------------------------
(* get_interface called on a native and a model that lacks some of the
   native's residues and numbers the others as the native does. *)

\* the residues of a chain that are kept, in order
Kept(chain, keep) ==
    [chain EXCEPT !.residues = SelectSeq(chain.residues, LAMBDA res : res.id \in keep)]

\* the non-empty sets of residue numbers a model may keep of a chain
KeptNumbers(chain) == (SUBSET (1..Len(chain.residues))) \ {{}}

InterfaceInit ==
    /\ \E nat \in NativeInputs, all_atom \in BOOLEAN :
         \E keepA \in KeptNumbers(NativeOf(nat)[1]), keepB \in KeptNumbers(NativeOf(nat)[2]) :
            call = [fn |-> "get_interface",
                    model_structure |-> <<Kept(NativeOf(nat)[1], keepA),
                                          Kept(NativeOf(nat)[2], keepB)>>,
                    ref_structure |-> NativeOf(nat),
                    model_group1 |-> <<"A">>, model_group2 |-> <<"B">>,
                    ref_group1 |-> <<"A">>, ref_group2 |-> <<"B">>,
                    thr |-> IF all_atom THEN 10 ELSE 8,
                    all_atom |-> all_atom]
    /\ ret = NoResult
    /\ pc = "call"
    /\ args = Idle
    /\ ml = Idle
    /\ c = Idle
    /\ stdout = <<>>
    /\ outcome = Running

\* the call of line 216
InterfaceCall ==
    /\ call.fn = "get_interface"
    /\ ret.tag = "none"
    /\ ret' = [tag |-> "done",
               result |-> get_interface(call.model_structure, call.ref_structure,
                                        call.model_group1, call.model_group2,
                                        call.ref_group1, call.ref_group2,
                                        call.thr, call.all_atom)]
    /\ UNCHANGED <<args, ml, call, pc, c, stdout, outcome>>

InterfaceNext == InterfaceCall

SpecInterface == InterfaceInit /\ [][InterfaceNext]_vars

InterfaceDone == call.fn = "get_interface" /\ ret.tag = "done"

\* C19: for a model holding a subset of the native's residue numbers,
\* get_interface stays within the model's residue lists and every index of
\* the two lists it returns pairs a native residue with the model residue
\* of the same chain and number.
C19_InterfacePairsSameNumbers ==
    InterfaceDone =>
        /\ ret.result.tag = "ok"
        /\ Len(ret.result.value.model_interface) = Len(ret.result.value.ref_interface)
        /\ \A k \in 1..Len(ret.result.value.ref_interface) :
              /\ ret.result.value.model_interface[k].chain
                    = ret.result.value.ref_interface[k].chain
              /\ ret.result.value.model_interface[k].id
                    = ret.result.value.ref_interface[k].id

====
